---------------------------- MODULE Spec2Model ----------------------------
(***************************************************************************)
(* A model of the typed arena of src/src/lib.rs: Arena<T> is a             *)
(* RefCell<ChunkList<T>>, a ChunkList is one open Vec (current) and the    *)
(* sealed Vecs (rest).  Elements enter by Arena::alloc or by the placement *)
(* protocol make_place -> (construct) -> finalize, with Drop for           *)
(* ArenaPlace as the roll-back.                                            *)
(*                                                                         *)
(* A Vec is [buf, cap, len, slots]: buf is the identity (address) of its   *)
(* heap buffer, slots the contents of all cap slots of the buffer, len the *)
(* logical length.  A slot holds a value or Uninit.                        *)
(***************************************************************************)
EXTENDS Integers, Sequences, FiniteSets

VARIABLES
    chunks,     \* the ChunkList behind the RefCell: [current, rest]
    borrow,     \* the RefCell's borrow flag: 0 free, 1 mutably borrowed
    nextBuf,    \* the heap: the next fresh buffer identity
    places,     \* the ArenaPlace values alive (outstanding reservations)
    resv,       \* per reservation, in order of make_place: how often finalize / drop ran
    issued,     \* the references handed out so far, in order: the slot (buf, idx),
                \* the value written, the reservation it came from (0: alloc)
    arena,      \* "live", "consumed" (into_vec), "dropped"
    output,     \* what into_vec returned
    destroyed,  \* the slots whose destructor ran at teardown
    last        \* the last call: its operation and how it ended

vars == <<chunks, borrow, nextBuf, places, resv, issued, arena, output, destroyed, last>>

----------------------------------------------------------------------------
(* Bounds of the model *)

MaxInitCap == 3     \* requested capacities 0..MaxInitCap
MaxVal     == 2     \* element values 1..MaxVal
MaxAllocs  == 3     \* references issued in one run
MaxResv    == 2     \* reservations made in one run
MaxPlaces  == 2     \* reservations outstanding at once
UsizeBits  == 11    \* width of usize, scaled down
MaxSize    == 3     \* small element sizes 0..MaxSize, in bytes

Values   == 1..MaxVal
UsizeMax == 2^UsizeBits - 1

----------------------------------------------------------------------------
(* Program constants and std helpers *)

MIN_CAPACITY == 1
INITIAL_SIZE == 1024

\* the content of a slot no value was written to
Uninit == 0

\* Option::None of checked_mul
None == -1

Max(a, b) == IF a >= b THEN a ELSE b

\* usize::checked_mul
checked_mul(a, b) == IF a * b > UsizeMax THEN None ELSE a * b

\* Vec::with_capacity(n) on a fresh buffer b: empty, all slots uninitialized
VecWithCapacity(n, b) ==
    [buf |-> b, cap |-> n, len |-> 0, slots |-> [i \in 1..n |-> Uninit]]

\* The capacities Vec::push may choose when it has to reallocate a full buffer
\* (amortized doubling; newer std versions start from at least 4).
VecGrowCaps(cap) == {2 * cap, Max(4, 2 * cap)}

\* Vec::push(v).  Within capacity the buffer is written in place.  On a full
\* Vec the buffer is reallocated to capacity nc, to a new address (b) when
\* moved and extended in place otherwise.
VecPush(vec, v, nc, moved, b) ==
    IF vec.len < vec.cap
    THEN [vec EXCEPT !.len = vec.len + 1, !.slots[vec.len + 1] = v]
    ELSE [buf   |-> IF moved THEN b ELSE vec.buf,
          cap   |-> nc,
          len   |-> vec.len + 1,
          slots |-> [i \in 1..nc |-> IF i <= vec.cap THEN vec.slots[i]
                                     ELSE IF i = vec.len + 1 THEN v ELSE Uninit]]

\* Vec::push on a full Vec panics when the enlarged capacity nc does not fit
VecPushOverflows(vec, nc) == vec.len = vec.cap /\ nc > UsizeMax

\* RefCell::borrow_mut succeeds iff the cell is not borrowed
CanBorrowMut(flag) == flag = 0

\* A RefMut that is leaked instead of dropped: the RefCell stays borrowed.
ReleaseBorrowLeaked(flag) == 1

\* The RefMut is dropped when the call ends (by return or by unwinding)
ReleaseBorrow(flag) == 0

----------------------------------------------------------------------------
(* ChunkList *)

\* A constructor that takes the requested capacity as it is.
with_capacity_unclamped(n) ==
    [current |-> VecWithCapacity(n, 1), rest |-> <<>>]

\* Arena::with_capacity(n)
with_capacity(n) ==
    [current |-> VecWithCapacity(Max(MIN_CAPACITY, n), 1), rest |-> <<>>]

\* A capacity test that is off by one.
IsFullOffByOne(vec) == vec.len = vec.cap + 1

\* Vec::capacity: a Vec of a zero-sized element type holds no buffer and
\* reports usize::MAX, whatever capacity was requested
VecCapacityOf(size, n) == IF size = 0 THEN UsizeMax ELSE n

\* Arena::with_capacity(n) for an element type of `size` bytes.  with_capacity
\* above is the case of a type of non-zero size, the one Spec and SeqSpec follow.
with_capacity_of(size, n) ==
    [current |-> VecWithCapacity(VecCapacityOf(size, with_capacity(n).current.cap), 1),
     rest    |-> <<>>]

\* A default capacity that forgets to divide the byte budget by the size.
new_undivided(size) == with_capacity_of(size, INITIAL_SIZE)

\* Arena::new for an element type of `size` bytes (mem::size_of::<T>())
new(size) == with_capacity_of(size, INITIAL_SIZE \div Max(1, size))

\* `chunks.current.len() == chunks.current.capacity()` of alloc and finalize
IsFull(vec) == vec.len = vec.cap

\* ChunkList::grow succeeds unless doubling overflows (unwrap panics)
GrowOverflows(cl) == checked_mul(cl.current.cap, 2) = None

\* A grow that enlarges the open chunk instead of sealing it: its contents move
\* to the fresh buffer b.
grow_by_realloc(cl, b) ==
    [current |-> [buf   |-> b,
                  cap   |-> 2 * cl.current.cap,
                  len   |-> cl.current.len,
                  slots |-> [i \in 1..(2 * cl.current.cap) |->
                                IF i <= cl.current.cap THEN cl.current.slots[i]
                                ELSE Uninit]],
     rest    |-> cl.rest]

\* ChunkList::grow: the new open chunk lives in the fresh buffer b
grow(cl, b) ==
    [current |-> VecWithCapacity(checked_mul(cl.current.cap, 2), b),
     rest    |-> Append(cl.rest, cl.current)]

\* all chunks, oldest first, the open chunk last
AllChunks(cl) == Append(cl.rest, cl.current)

\* the counted slots of a Vec, in order
Counted(vec) == SubSeq(vec.slots, 1, vec.len)

RECURSIVE Concat(_)
Concat(ss) == IF ss = <<>> THEN <<>> ELSE Head(ss) \o Concat(Tail(ss))

\* An into_vec that appends the open chunk first.
into_vec_current_first(cl) ==
    Counted(cl.current) \o Concat([k \in 1..Len(cl.rest) |-> Counted(cl.rest[k])])

\* Arena::into_vec: rest in order, then current
into_vec(cl) ==
    Concat([k \in 1..Len(cl.rest) |-> Counted(cl.rest[k])]) \o Counted(cl.current)

\* Is the buffer b still allocated, i.e. the buffer of some chunk?
LiveBuf(cl, b) == \E k \in 1..Len(AllChunks(cl)) : AllChunks(cl)[k].buf = b

\* A write of v through a raw pointer to slot idx (0-based) of buffer b
WriteSlot(cl, b, idx, v) ==
    LET wr(vec) == IF vec.buf = b /\ idx < vec.cap
                   THEN [vec EXCEPT !.slots[idx + 1] = v] ELSE vec
    IN  [current |-> wr(cl.current),
         rest    |-> [k \in 1..Len(cl.rest) |-> wr(cl.rest[k])]]

----------------------------------------------------------------------------
(* The state after construction *)

NoCall == [op |-> "new", res |-> "ok", nested |-> FALSE]

Init ==
    /\ \E n \in 0..MaxInitCap : chunks = with_capacity(n)
    /\ borrow = 0
    /\ nextBuf = 2
    /\ places = {}
    /\ resv = <<>>
    /\ issued = <<>>
    /\ arena = "live"
    /\ output = <<>>
    /\ destroyed = <<>>
    /\ last = NoCall

\* No call can be made on an arena that was moved out or dropped, nor after
\* undefined behaviour, whose outcome the model does not follow.
Usable == arena = "live" /\ last.res # "ub"

\* The record of a call: nested tells whether an ArenaPlace was alive when it
\* started.
Call(op, res) == [op |-> op, res |-> res, nested |-> places # {}]


Others == <<arena, output, destroyed>>

\* A call that found the RefCell already borrowed: borrow_mut panics before
\* anything is touched.
BorrowPanics(op) ==
    /\ last' = Call(op, "panic_borrow")
    /\ UNCHANGED <<chunks, borrow, nextBuf, places, resv, issued, Others>>

----------------------------------------------------------------------------
(* Arena::alloc *)

alloc(value, nc, moved) ==
    /\ Usable
    /\ IF ~CanBorrowMut(borrow)
       THEN BorrowPanics("alloc")
       ELSE IF VecPushOverflows(chunks.current, nc)
       THEN \* Vec::push panics ("capacity overflow"): nothing is written
            /\ last' = Call("alloc", "panic_overflow")
            /\ borrow' = ReleaseBorrow(borrow)
            /\ UNCHANGED <<chunks, nextBuf, places, resv, issued, Others>>
       ELSE LET next_item_index == chunks.current.len
                pushed == [chunks EXCEPT
                              !.current = VecPush(@, value, nc, moved, nextBuf)]
                new_item_ref == [buf |-> pushed.current.buf,
                                 idx |-> next_item_index,
                                 val |-> value,
                                 by  |-> 0]
                heap == IF pushed.current.buf = nextBuf THEN nextBuf + 1 ELSE nextBuf
            IN  /\ borrow' = ReleaseBorrow(borrow)
                /\ UNCHANGED <<places, resv, Others>>
                /\ IF IsFull(pushed.current) /\ GrowOverflows(pushed)
                   THEN \* unwrap panics inside grow: nothing is returned
                        /\ chunks' = pushed
                        /\ nextBuf' = heap
                        /\ issued' = issued
                        /\ last' = Call("alloc", "panic_overflow")
                   ELSE /\ chunks' = IF IsFull(pushed.current)
                                     THEN grow(pushed, heap)
                                     ELSE pushed
                        /\ nextBuf' = IF IsFull(pushed.current) THEN heap + 1 ELSE heap
                        /\ issued' = Append(issued, new_item_ref)
                        /\ last' = Call("alloc", "ok")

----------------------------------------------------------------------------
(* Placer::make_place for &Arena *)

make_place ==
    /\ Usable
    /\ IF ~CanBorrowMut(borrow)
       THEN BorrowPanics("make_place")
       ELSE LET next_item_index == chunks.current.len
            IN  IF next_item_index + 1 > chunks.current.cap
                THEN \* set_len past the capacity and get_unchecked_mut out of
                     \* bounds: undefined behaviour
                     /\ last' = Call("make_place", "ub")
                     /\ UNCHANGED <<chunks, borrow, nextBuf, places, resv, issued, Others>>
                ELSE /\ chunks' = [chunks EXCEPT !.current.len = next_item_index + 1]
                     /\ places' = places \cup
                            {[id  |-> Len(resv) + 1,
                              buf |-> chunks.current.buf,
                              idx |-> next_item_index,
                              pre |-> chunks]}
                     /\ resv' = Append(resv, [commits |-> 0, drops |-> 0])
                     /\ borrow' = ReleaseBorrow(borrow)
                     /\ last' = Call("make_place", "ok")
                     /\ UNCHANGED <<nextBuf, issued, Others>>

----------------------------------------------------------------------------
(* Drop for ArenaPlace *)

\* A roll-back that leaves the length as it is.
set_len_unchanged(vec) == vec

\* `chunks.current.set_len(len - 1)`
set_len_minus_one(vec) == [vec EXCEPT !.len = vec.len - 1]

\* `len - 1` on len = 0: an overflow panic in a build with overflow checks
\* ("debug"), a wrapped length handed to set_len otherwise ("release")
Builds == {"debug", "release"}

drop(p, build) ==
    /\ Usable
    /\ p \in places
    /\ IF ~CanBorrowMut(borrow)
       THEN BorrowPanics("drop")
       ELSE LET len == chunks.current.len
            IN  /\ places' = places \ {p}
                /\ resv' = [resv EXCEPT ![p.id].drops = @ + 1]
                /\ borrow' = ReleaseBorrow(borrow)
                /\ UNCHANGED <<nextBuf, issued, Others>>
                /\ IF len = 0
                   THEN /\ chunks' = chunks
                        /\ last' = Call("drop", IF build = "debug"
                                                THEN "panic_underflow" ELSE "ub")
                   ELSE /\ chunks' = [chunks EXCEPT !.current = set_len_minus_one(@)]
                        /\ last' = Call("drop", "ok")

----------------------------------------------------------------------------
(* InPlace::finalize for ArenaPlace *)

\* A finalize without the forget: Drop runs on `self` when finalize ends.
not_forgotten(p) == {p}

\* `mem::forget(self)`: the places whose Drop still runs when finalize ends
mem_forget(p) == {}

\* The construction wrote `value` through p's pointer before finalize is called.
finalize(p, value) ==
    /\ Usable
    /\ p \in places
    /\ IF ~LiveBuf(chunks, p.buf)
       THEN \* the write went through a pointer into a freed buffer
            /\ last' = Call("finalize", "ub")
            /\ UNCHANGED <<chunks, borrow, nextBuf, places, resv, issued, Others>>
       ELSE IF ~CanBorrowMut(borrow)
       THEN BorrowPanics("finalize")
       ELSE LET written == WriteSlot(chunks, p.buf, p.idx, value)
            IN  /\ borrow' = ReleaseBorrow(borrow)
                /\ places' = places \ {p}
                /\ nextBuf' = IF IsFull(written.current) /\ ~GrowOverflows(written)
                              THEN nextBuf + 1 ELSE nextBuf
                /\ UNCHANGED Others
                /\ IF IsFull(written.current) /\ GrowOverflows(written)
                   THEN \* unwrap panics inside grow; unwinding drops `self`,
                        \* whose Drop rolls the length back
                        /\ chunks' = [written EXCEPT !.current = set_len_minus_one(@)]
                        /\ resv' = [resv EXCEPT ![p.id].drops = @ + 1]
                        /\ issued' = issued
                        /\ last' = Call("finalize", "panic_overflow")
                   ELSE LET grown == IF IsFull(written.current)
                                     THEN grow(written, nextBuf)
                                     ELSE written
                            dropped == mem_forget(p)
                        IN  /\ chunks' = IF dropped = {} THEN grown
                                         ELSE [grown EXCEPT
                                                 !.current = set_len_minus_one(@)]
                            /\ resv' = [resv EXCEPT
                                          ![p.id].commits = @ + 1,
                                          ![p.id].drops = @ + Cardinality(dropped)]
                            /\ issued' = Append(issued, [buf |-> p.buf,
                                                         idx |-> p.idx,
                                                         val |-> value,
                                                         by  |-> p.id])
                            /\ last' = Call("finalize", "ok")

----------------------------------------------------------------------------
(* Arena::into_vec and the arena's own drop.  Both take the arena by value, *)
(* so no ArenaPlace (which borrows it) is alive.                            *)

IntoVec ==
    /\ Usable
    /\ places = {}
    /\ arena' = "consumed"
    /\ output' = into_vec(chunks)
    /\ last' = Call("into_vec", "ok")
    /\ UNCHANGED <<chunks, borrow, nextBuf, places, resv, issued, destroyed>>

\* Dropping the arena drops every Vec, which runs the destructor of each of
\* its counted slots; over an uninitialized slot that is undefined behaviour.
DropArena ==
    /\ Usable
    /\ places = {}
    /\ arena' = "dropped"
    /\ LET dropped == into_vec(chunks)
       IN  /\ destroyed' = dropped
           /\ last' = Call("drop_arena",
                           IF \E i \in 1..Len(dropped) : dropped[i] = Uninit
                           THEN "ub" ELSE "ok")
    /\ UNCHANGED <<chunks, borrow, nextBuf, places, resv, issued, output>>

----------------------------------------------------------------------------
(* Specifications *)

\* The calls of a client, within the bounds of the model
AllocCall == \E v \in Values, moved \in BOOLEAN :
                \E nc \in VecGrowCaps(chunks.current.cap) : alloc(v, nc, moved)
FinalizeCall == \E p \in places, v \in Values : finalize(p, v)

AllocStep == Len(issued) < MaxAllocs /\ AllocCall
MakePlaceStep ==
    /\ Len(resv) < MaxResv
    /\ Cardinality(places) < MaxPlaces
    /\ make_place
FinalizeStep == Len(issued) < MaxAllocs /\ FinalizeCall
DropStep == \E p \in places, build \in Builds : drop(p, build)

\* Any client: calls may be made while reservations are outstanding.
Next ==
    \/ AllocStep
    \/ MakePlaceStep
    \/ FinalizeStep
    \/ DropStep
    \/ IntoVec
    \/ DropArena

Spec == Init /\ [][Next]_vars

\* A client that completes each reservation (commit or abandon) before its
\* next call on the arena.
SeqAllocStep == places = {} /\ AllocStep
SeqMakePlaceStep == places = {} /\ MakePlaceStep

SeqNext ==
    \/ SeqAllocStep
    \/ SeqMakePlaceStep
    \/ FinalizeStep
    \/ DropStep
    \/ IntoVec
    \/ DropArena

SeqSpec == Init /\ [][SeqNext]_vars

----------------------------------------------------------------------------
(* An arena near the end of the address space.  Only a Vec of a zero-sized  *)
(* element type can have a capacity whose double overflows: OvfInit is an   *)
(* arena of such a type (any requested capacity) after all but one or two   *)
(* of its usize::MAX slots were filled by alloc.                            *)

Prefilled(vec, len) ==
    [vec EXCEPT !.len = len,
                !.slots = [i \in 1..vec.cap |-> IF i <= len THEN 1 ELSE Uninit]]

OvfInit ==
    /\ \E left \in 1..2 :
          /\ chunks = [with_capacity_of(0, 0) EXCEPT
                         !.current = Prefilled(@, UsizeMax - left)]
          /\ issued = [i \in 1..(UsizeMax - left) |->
                         [buf |-> 1, idx |-> i - 1, val |-> 1, by |-> 0]]
    /\ borrow = 0
    /\ nextBuf = 2
    /\ places = {}
    /\ resv = <<>>
    /\ arena = "live"
    /\ output = <<>>
    /\ destroyed = <<>>
    /\ last = Call("alloc", "ok")

OvfNext ==
    \/ AllocCall
    \/ MakePlaceStep
    \/ FinalizeCall
    \/ DropStep
    \/ IntoVec
    \/ DropArena

OvfSpec == OvfInit /\ [][OvfNext]_vars

----------------------------------------------------------------------------
(* The constructors, over element types of several sizes.  The state after *)
(* construction records the constructor call: the element size and the      *)
(* capacity handed to with_capacity.  The client then completes each        *)
(* reservation before its next call.                                        *)

ElemSizes == 0..MaxSize \cup {INITIAL_SIZE - 1, INITIAL_SIZE, INITIAL_SIZE + 1}

Built(fn, size, n) ==
    [op |-> fn, res |-> "ok", nested |-> FALSE, size |-> size, n |-> n]

CtorInit ==
    /\ \E size \in ElemSizes :
          \/ \E n \in 0..MaxInitCap :
                /\ chunks = with_capacity_of(size, n)
                /\ last = Built("with_capacity", size, n)
          \/ /\ chunks = new(size)
             /\ last = Built("new", size, INITIAL_SIZE \div Max(1, size))
    /\ borrow = 0
    /\ nextBuf = 2
    /\ places = {}
    /\ resv = <<>>
    /\ issued = <<>>
    /\ arena = "live"
    /\ output = <<>>
    /\ destroyed = <<>>

CtorSpec == CtorInit /\ [][SeqNext]_vars

TypeOK ==
    /\ borrow \in {0, 1}
    /\ arena \in {"live", "consumed", "dropped"}
    /\ chunks.current.cap >= MIN_CAPACITY
    /\ chunks.current.len <= chunks.current.cap

----------------------------------------------------------------------------
(* Helpers of the properties *)

\* the chunk whose buffer is b
ChunkOf(cl, b) ==
    AllChunks(cl)[CHOOSE k \in 1..Len(AllChunks(cl)) : AllChunks(cl)[k].buf = b]

\* the values of the issued references, in order of issue
IssuedVals == [i \in 1..Len(issued) |-> issued[i].val]

\* the slots (buffer, index) counted by the logical lengths
CountedSlots(cl) ==
    UNION {{<<AllChunks(cl)[k].buf, i - 1>> : i \in 1..AllChunks(cl)[k].len} :
              k \in 1..Len(AllChunks(cl))}

IssuedSlots == {<<issued[i].buf, issued[i].idx>> : i \in 1..Len(issued)}

SomeRolledBack == \E r \in 1..Len(resv) : resv[r].drops = 1
SomeCommitted == \E r \in 1..Len(resv) : resv[r].commits = 1

----------------------------------------------------------------------------
(* C1 - Address stability.  For a client that completes each reservation   *)
(* before its next call (SeqSpec): every issued reference designates a     *)
(* slot of an allocated buffer that holds the value written, and every     *)
(* step that leaves the arena alive keeps each issued reference, the       *)
(* buffer and capacity of the chunk holding it, and the slot's content.    *)

IssuedSlotsLive ==
    arena = "live" =>
        \A i \in 1..Len(issued) :
            /\ LiveBuf(chunks, issued[i].buf)
            /\ issued[i].idx < ChunkOf(chunks, issued[i].buf).cap
            /\ ChunkOf(chunks, issued[i].buf).slots[issued[i].idx + 1] = issued[i].val

IssuedSlotsKept ==
    arena' = "live" =>
        \A i \in 1..Len(issued) :
            /\ Len(issued') >= i
            /\ issued'[i] = issued[i]
            /\ LiveBuf(chunks', issued[i].buf)
            /\ ChunkOf(chunks', issued[i].buf).cap = ChunkOf(chunks, issued[i].buf).cap
            /\ ChunkOf(chunks', issued[i].buf).slots[issued[i].idx + 1]
                   = ChunkOf(chunks, issued[i].buf).slots[issued[i].idx + 1]

\* C1: issued slots are live and hold their value, and every step keeps them,
\* their buffer and its capacity.
AddressStability == []IssuedSlotsLive /\ [][IssuedSlotsKept]_vars

\* Three references issued, the first now in a sealed chunk, around a
\* committed and an abandoned reservation.
AddressStabilityWitness ==
    /\ arena = "live"
    /\ Len(issued) = 3
    /\ Len(chunks.rest) >= 1
    /\ issued[1].buf = chunks.rest[1].buf
    /\ SomeRolledBack
    /\ SomeCommitted

----------------------------------------------------------------------------
(* C2 - Order preservation.  For a client that completes each reservation  *)
(* before its next call (SeqSpec): into_vec returns exactly the values of  *)
(* the issued references in order of issue.                                *)

----------------------------------------------------------------------------
(* C3 - Eager growth.  Whenever alloc or finalize returns normally the     *)
(* open chunk has a free slot; and when the call found the open chunk one  *)
(* short of full (alloc) or full (finalize), it sealed that chunk, full,   *)
(* and installed an empty open chunk within the same step.                 *)

ReturnsNormally(ops) == last'.op \in ops /\ last'.res = "ok"

FilledByCall ==
    IF last'.op = "alloc"
    THEN chunks.current.len + 1 = chunks.current.cap
    ELSE chunks.current.len = chunks.current.cap

GrewInCall ==
    /\ Len(chunks'.rest) = Len(chunks.rest) + 1
    /\ chunks'.rest[Len(chunks'.rest)].buf = chunks.current.buf
    /\ chunks'.rest[Len(chunks'.rest)].len = chunks.current.cap
    /\ chunks'.rest[Len(chunks'.rest)].cap = chunks.current.cap
    /\ chunks'.current.len = 0

EagerGrowthStep ==
    ReturnsNormally({"alloc", "finalize"}) =>
        /\ chunks'.current.len < chunks'.current.cap
        /\ FilledByCall => GrewInCall

\* C3: a normal return of alloc or finalize leaves a free slot, growth having
\* happened within the call that found the chunk filled.
EagerGrowth == [][EagerGrowthStep]_vars

\* A commit that found the open chunk full has returned: the reference it
\* issued is the last slot of the newest sealed chunk.
EagerGrowthWitness ==
    /\ last.op = "finalize"
    /\ last.res = "ok"
    /\ Len(chunks.rest) >= 1
    /\ chunks.current.len = 0
    /\ issued[Len(issued)].buf = chunks.rest[Len(chunks.rest)].buf
    /\ issued[Len(issued)].idx = chunks.rest[Len(chunks.rest)].cap - 1

----------------------------------------------------------------------------
(* C4 - Free-slot precondition.  Every alloc and every make_place that the *)
(* RefCell lets in starts with a free slot in the open chunk.              *)

FreeSlotAtCallStartStep ==
    (last'.op \in {"alloc", "make_place"} /\ last'.res # "panic_borrow") =>
        chunks.current.len < chunks.current.cap

\* C4: every alloc and make_place let in starts with len < capacity.
FreeSlotAtCallStart == [][FreeSlotAtCallStartStep]_vars

----------------------------------------------------------------------------
(* C5 - Unique issuance.  No two issued references designate the same      *)
(* slot.                                                                   *)

\* C5: issued references designate pairwise distinct slots.
UniqueIssuance ==
    \A i, j \in 1..Len(issued) :
        i # j => <<issued[i].buf, issued[i].idx>> # <<issued[j].buf, issued[j].idx>>

----------------------------------------------------------------------------
(* C6 - Rollback correctness.  For a client that completes each            *)
(* reservation before its next call (SeqSpec): dropping a place succeeds   *)
(* and leaves the chunk list exactly as it was before the place was made,  *)
(* without growth and without issuing anything, and the open chunk's       *)
(* length, the index the next make_place or alloc takes, is the index the  *)
(* place held.                                                             *)

RollbackRestoresStep ==
    \A p \in places :
        (last'.op = "drop" /\ p \notin places') =>
            /\ last'.res = "ok"
            /\ p.pre.current.len < p.pre.current.cap
            /\ chunks' = p.pre
            /\ chunks'.current.buf = p.buf
            /\ chunks'.current.len = p.idx
            /\ issued' = issued
            /\ nextBuf' = nextBuf

\* C6: make_place followed by drop restores the chunk list and frees the index.
RollbackRestores == [][RollbackRestoresStep]_vars

\* A place has been dropped in an open chunk that already holds an element,
\* after at least one growth.
RollbackRestoresWitness ==
    /\ last.op = "drop"
    /\ last.res = "ok"
    /\ places = {}
    /\ Len(chunks.rest) >= 1
    /\ chunks.current.len >= 1

----------------------------------------------------------------------------
(* C8 - Allocation during construction is detected.  An alloc or           *)
(* make_place called while a reservation is outstanding ends in the        *)
(* borrow panic.                                                           *)

\* C8: an alloc or make_place during an outstanding reservation panics.
NestedCallDetected ==
    (last.op \in {"alloc", "make_place"} /\ last.nested) => last.res = "panic_borrow"

----------------------------------------------------------------------------
(* C9 - Reservation protocol.  finalize and drop run at most once on a     *)
(* reservation and never both; a reservation is outstanding exactly while  *)
(* neither ran; a terminal state is kept for ever; every reference issued  *)
(* for a reservation is issued once, by its finalize; a normal finalize    *)
(* leaves the number of counted slots as it is, and a drop issues nothing. *)

Terminal(r) == resv[r].commits + resv[r].drops >= 1

ReservationStates ==
    /\ \A r \in 1..Len(resv) :
          /\ resv[r].commits + resv[r].drops <= 1
          /\ Terminal(r) <=> ~(\E p \in places : p.id = r)
    /\ \A i \in 1..Len(issued) :
          issued[i].by # 0 =>
              /\ resv[issued[i].by].commits = 1
              /\ resv[issued[i].by].drops = 0
              /\ \A j \in 1..Len(issued) : issued[j].by = issued[i].by => j = i

ReservationStep ==
    /\ \A r \in 1..Len(resv) : Terminal(r) => (Len(resv') >= r /\ resv'[r] = resv[r])
    /\ (last'.op = "finalize" /\ last'.res = "ok") =>
           Len(into_vec(chunks')) = Len(into_vec(chunks))
    /\ last'.op = "drop" => issued' = issued

----------------------------------------------------------------------------
(* C10 - Teardown safety.  With no reservation outstanding, the counted    *)
(* slots are exactly the slots of the issued references and each holds the *)
(* value written; dropping the arena runs the destructor on exactly these  *)
(* values and never on an uninitialized slot.                              *)

\* C10: with no reservation outstanding the counted slots are exactly the
\* initialized, issued ones, and teardown destroys exactly those.
TeardownSafety ==
    /\ (places = {} /\ arena = "live") =>
          /\ CountedSlots(chunks) = IssuedSlots
          /\ \A i \in 1..Len(into_vec(chunks)) : into_vec(chunks)[i] # Uninit
    /\ arena = "dropped" => (last.res = "ok" /\ destroyed = IssuedVals)

----------------------------------------------------------------------------
(* C11 - Growth overflow is fatal.  A growth makes the new open chunk      *)
(* exactly twice as large as the chunk it seals, and after a call that     *)
(* ended in the overflow failure no further call is made on the arena.     *)

GrowOverflowFatalStep ==
    /\ Len(chunks'.rest) > Len(chunks.rest) =>
           chunks'.current.cap = 2 * chunks'.rest[Len(chunks'.rest)].cap
    /\ \A k \in 1..Len(AllChunks(chunks')) : AllChunks(chunks')[k].cap <= UsizeMax
    /\ last.res # "panic_overflow"

\* C11: no wrapped capacity is created and nothing runs after the overflow.
GrowOverflowFatal == [][GrowOverflowFatalStep]_vars

----------------------------------------------------------------------------
(* C12 - No other failures.  Every call completes normally or fails for    *)
(* one of two reasons: the capacity-doubling overflow or the re-entrant    *)
(* acquisition of the guard.                                               *)

Failures == {"panic_overflow", "panic_borrow"}

\* C12: the last call completed normally or failed for one of the two reasons.
NoOtherFailures == last.res \in {"ok"} \cup Failures

----------------------------------------------------------------------------
(* C13 - Minimum capacity.  Right after with_capacity(n) the arena is one  *)
(* empty open chunk and no sealed chunk; a requested capacity of 0 gives   *)
(* the state a requested capacity of 1 gives.  The operations read the     *)
(* chunk list only, never the constructor's argument, so equal states      *)
(* after construction have equal futures.                                  *)

JustBuilt(fn) == last.op = fn /\ "size" \in DOMAIN last

OneEmptyChunk(cap) ==
    /\ chunks.rest = <<>>
    /\ chunks.current.len = 0
    /\ chunks.current.cap = cap
    /\ chunks.current.slots = [i \in 1..cap |-> Uninit]

\* As stated: the open capacity is max(1, n) for every element type, and 1
\* for n = 0.
MinimumCapacityAnySize ==
    JustBuilt("with_capacity") =>
        /\ OneEmptyChunk(Max(1, last.n))
        /\ last.n = 0 => OneEmptyChunk(1)

\* C13: the open capacity after with_capacity(n) is max(1, n) for an element
\* type of non-zero size and usize::MAX for a zero-sized one, so at least
\* max(1, n); with_capacity(0) gives the state with_capacity(1) gives.
MinimumCapacity ==
    JustBuilt("with_capacity") =>
        /\ OneEmptyChunk(IF last.size = 0 THEN UsizeMax ELSE Max(1, last.n))
        /\ chunks.current.cap >= Max(1, last.n)
        /\ last.n = 0 => chunks = with_capacity_of(last.size, 1)

MinimumCapacityWitness ==
    /\ JustBuilt("with_capacity")
    /\ last.n = 0
    /\ last.size > 0
    /\ chunks.current.cap = 1

----------------------------------------------------------------------------
(* C14 - Default capacity.  Right after Arena::new for an element type of  *)
(* s bytes the arena is one empty open chunk.                              *)

\* As stated: its capacity is max(1, floor(1024 / max(1, s))) for every s.
DefaultCapacityAnySize ==
    JustBuilt("new") =>
        OneEmptyChunk(Max(1, INITIAL_SIZE \div Max(1, last.size)))

\* C14: its capacity is max(1, floor(1024 / s)) for s >= 1 and usize::MAX
\* for s = 0; it is at least 1 for every s.
DefaultCapacity ==
    JustBuilt("new") =>
        /\ OneEmptyChunk(IF last.size = 0 THEN UsizeMax
                         ELSE Max(1, INITIAL_SIZE \div last.size))
        /\ chunks.current.cap >= 1

DefaultCapacityWitness ==
    /\ JustBuilt("new")
    /\ last.size > INITIAL_SIZE
    /\ chunks.current.cap = 1

----------------------------------------------------------------------------
(* C15 - Sealed-chunk invariant.  Every sealed chunk is exactly full, and  *)
(* a step of alloc, make_place, finalize or drop (with the grow it may     *)
(* run) leaves every chunk that was sealed before it as it was: same       *)
(* buffer, length, capacity and slots.                                     *)

SealedFull(cl) == \A k \in 1..Len(cl.rest) : IsFull(cl.rest[k])

SealedFrozenStep ==
    /\ SealedFull(chunks)
    /\ SealedFull(chunks')
    /\ Len(chunks'.rest) >= Len(chunks.rest)
    /\ \A k \in 1..Len(chunks.rest) : chunks'.rest[k] = chunks.rest[k]

\* C15: sealed chunks are full and no step changes a sealed chunk.
SealedFrozen == [][SealedFrozenStep]_vars

----------------------------------------------------------------------------
(* C16 - Growth policy.  A step that adds a sealed chunk found the    *)
(* open chunk exactly full, appends it as it is and installs an empty      *)
(* open chunk of twice its capacity; the oldest chunk keeps the capacity   *)
(* it was built with and each later chunk has twice the capacity of the    *)
(* chunk before it, which is c*2^i for the i-th chunk.                     *)

Doubling(cl) ==
    \A k \in 2..Len(AllChunks(cl)) :
        AllChunks(cl)[k].cap = 2 * AllChunks(cl)[k - 1].cap

GrowthPolicyStep ==
    /\ AllChunks(chunks')[1].cap = AllChunks(chunks)[1].cap
    /\ Doubling(chunks')
    /\ Len(chunks'.rest) # Len(chunks.rest) =>
          LET sealed == chunks'.rest[Len(chunks'.rest)]
          IN  /\ Len(chunks'.rest) = Len(chunks.rest) + 1
              /\ IsFull(sealed)
              /\ sealed.buf = chunks.current.buf
              /\ sealed.cap = chunks.current.cap
              /\ chunks'.current.len = 0
              /\ chunks'.current.cap = 2 * sealed.cap
    /\ Len(chunks'.rest) = Len(chunks.rest) =>
          chunks'.current.cap = chunks.current.cap

\* C16: chunks are sealed only when full and capacities double from the
\* initial capacity on.
GrowthPolicy == [][GrowthPolicyStep]_vars

----------------------------------------------------------------------------
(* C17 - Guard discipline.  Every call releases the RefCell before it      *)
(* ends, however it ends: between calls the RefCell is not borrowed, in    *)
(* particular while a reservation is outstanding.                          *)

\* C17: the RefCell is not borrowed in any state between two calls.
GuardFree == borrow = 0

GuardFreeWitness ==
    /\ places # {}
    /\ last.op = "make_place"
    /\ last.res = "ok"
    /\ borrow = 0

----------------------------------------------------------------------------
(* C18 - Abandon removes its own slot.  When drop runs on an ArenaPlace,   *)
(* the open chunk is the chunk the place was reserved in, its length is at *)
(* least 1 and the place's slot is its last counted slot.                  *)

Dropped == IF last'.op = "drop" THEN places \ places' ELSE {}

AbandonOwnSlotStep ==
    \A p \in Dropped :
        /\ chunks.current.buf = p.buf
        /\ chunks.current.len >= 1
        /\ p.idx = chunks.current.len - 1

\* C18: every drop of an ArenaPlace uncounts the place's own slot.
AbandonOwnSlot == [][AbandonOwnSlotStep]_vars

----------------------------------------------------------------------------
(* C19 - Commit returns the reserved slot.  The reference finalize returns *)
(* designates the slot make_place handed out, and the slot is counted when *)
(* finalize returns; when the open chunk was full at the call, finalize    *)
(* seals it first: the slot is then the last of the newest sealed chunk    *)
(* and the open chunk is empty.                                            *)

Committed ==
    IF last'.op = "finalize" /\ last'.res = "ok" THEN places \ places' ELSE {}

CommitReturnsReservedStep ==
    \A p \in Committed :
        LET ref == issued'[Len(issued')]
        IN  /\ Len(issued') = Len(issued) + 1
            /\ ref.buf = p.buf
            /\ ref.idx = p.idx
            /\ <<ref.buf, ref.idx>> \in CountedSlots(chunks')
            /\ IsFull(chunks.current) =>
                  /\ Len(chunks'.rest) = Len(chunks.rest) + 1
                  /\ chunks'.current.len = 0
                  /\ ref.buf = chunks'.rest[Len(chunks'.rest)].buf
                  /\ ref.idx = chunks'.rest[Len(chunks'.rest)].len - 1

\* C19: finalize returns the reserved slot, counted, sealing a full chunk
\* first.
CommitReturnsReserved == [][CommitReturnsReservedStep]_vars

============================================================================
